---------------------------- MODULE Spec2Model ----------------------------
(***************************************************************************)
(* Model of package geo (src/geocoder.go): the Geocoder facade, its two    *)
(* public operations Geocode and ReverseGeocode, the worker goroutine each *)
(* of them spawns, the select that races the worker's channel send against *)
(* time.After, response (fetch, trim, decode) and anyError.                *)
(*                                                                         *)
(* Strings whose characters matter (addresses, response bodies) are        *)
(* sequences of one-character strings.  Coordinates are integers standing  *)
(* for float64 values; only comparison with zero is made on them.          *)
(***************************************************************************)
EXTENDS Integers, Sequences, FiniteSets, TLC

\* Number of calls of Geocode/ReverseGeocode made on the one Geocoder value.
MaxCalls == 2

Calls == 1..MaxCalls

\* Instance 0 is the ResponseParser embedded in the Geocoder (g.ResponseParser);
\* instance c is the one a contract-honouring ResponseObject allocates for call c
\* (blank until the call decodes into it).
Instances == 0..MaxCalls

(***************************************************************************)
(* Errors (geocoder.go:15,19) and the Location type (geocoder.go:22-24).   *)
(***************************************************************************)
TimeoutError == "TIMEOUT"
NoResultError == "NO_RESULT"
nil == "nil"

Location(lat, lng) == [Lat |-> lat, Lng |-> lng]

\* Location{} : the zero value of the struct.
ZeroLocation == Location(0, 0)

\* A value of Go's interface{} as anyError receives it: the dynamic type and
\* the value of that type.
LocationValue(l) == [type |-> "Location", loc |-> l, str |-> ""]
StringValue(s) == [type |-> "string", loc |-> ZeroLocation, str |-> s]

(***************************************************************************)
(* anyError (geocoder.go:89-101).                                          *)
(***************************************************************************)
\* Variant: the Location test joined with || instead of &&.
anyErrorEitherZero(v) ==
    IF v.type = "Location"
    THEN IF v.loc.Lat = 0 \/ v.loc.Lng = 0 THEN NoResultError ELSE nil
    ELSE IF v.type = "string"
         THEN IF v.str = "" THEN NoResultError ELSE nil
         ELSE nil

\* Variant: the string case of the type switch is missing.
anyErrorNoStringCase(v) ==
    IF v.type = "Location"
    THEN IF v.loc.Lat = 0 /\ v.loc.Lng = 0 THEN NoResultError ELSE nil
    ELSE nil

\* Variant: the empty address reported with an error of its own.
anyErrorOwnError(v) ==
    IF v.type = "Location"
    THEN IF v.loc.Lat = 0 /\ v.loc.Lng = 0 THEN NoResultError ELSE nil
    ELSE IF v.type = "string"
         THEN IF v.str = "" THEN "EMPTY_ADDRESS" ELSE nil
         ELSE nil

anyError(v) ==
    IF v.type = "Location"
    THEN IF v.loc.Lat = 0 /\ v.loc.Lng = 0 THEN NoResultError ELSE nil
    ELSE IF v.type = "string"
         THEN IF v.str = "" THEN NoResultError ELSE nil
         ELSE nil

(***************************************************************************)
(* url.QueryEscape as Geocode applies it to the address (geocoder.go:49):  *)
(* letters stay, a space becomes "+", every other byte becomes %XX.        *)
(***************************************************************************)
Unreserved == {"a", "b"}

PercentCode(ch) ==
    IF ch = "+" THEN <<"%", "2", "B">>
    ELSE IF ch = "&" THEN <<"%", "2", "6">>
    ELSE IF ch = "%" THEN <<"%", "2", "5">>
    ELSE <<"%", "3", "F">>

EscapeChar(ch) ==
    IF ch \in Unreserved THEN <<ch>>
    ELSE IF ch = " " THEN <<"+">>
    ELSE PercentCode(ch)

RECURSIVE EscapeSeq(_)
EscapeSeq(s) == IF s = <<>> THEN <<>> ELSE EscapeChar(Head(s)) \o EscapeSeq(Tail(s))

\* Variant: the address handed on unescaped.
QueryEscapeOmitted(s) == s

QueryEscape(s) == EscapeSeq(s)

(***************************************************************************)
(* strings.Trim(s, cutset) (geocoder.go:83): every leading and every       *)
(* trailing character that is in cutset is removed.                        *)
(***************************************************************************)
RECURSIVE TrimLeft(_, _)
TrimLeft(s, cutset) ==
    IF s # <<>> /\ Head(s) \in cutset THEN TrimLeft(Tail(s), cutset) ELSE s

RECURSIVE TrimRight(_, _)
TrimRight(s, cutset) ==
    IF s # <<>> /\ s[Len(s)] \in cutset
    THEN TrimRight(SubSeq(s, 1, Len(s) - 1), cutset)
    ELSE s

\* Variant: strings.TrimLeft instead of strings.Trim.
TrimLeftOnly(s, cutset) == TrimLeft(s, cutset)

Trim(s, cutset) == TrimRight(TrimLeft(s, cutset), cutset)

\* The cutset " []" of geocoder.go:83.
Cutset == {" ", "[", "]"}

(***************************************************************************)
(* A ResponseParser instance: what Location() and Address() return from    *)
(* it (geocoder.go:33-37).  A blank instance returns the zero values.      *)
(***************************************************************************)
ParserState(lat, lng, addr) == [Lat |-> lat, Lng |-> lng, Addr |-> addr]

Blank == ParserState(0, 0, "")

\* JSON documents of the model: {1}, {2}, {0} are objects that set all three
\* fields; anything else is not a JSON document the parser accepts.
ObjectFields(data) ==
    IF data = <<"{", "1", "}">> THEN ParserState(1, 2, "A")
    ELSE IF data = <<"{", "2", "}">> THEN ParserState(0, 3, "B")
    ELSE ParserState(0, 0, "")

IsObject(data) ==
    data \in {<<"{", "1", "}">>, <<"{", "2", "}">>, <<"{", "0", "}">>}

\* json.Unmarshal(data, obj) (geocoder.go:83): a valid document sets the
\* fields of obj; on an error obj is left as it was and the error is dropped.
Unmarshal(data, obj) == IF IsObject(data) THEN ObjectFields(data) ELSE obj


(***************************************************************************)
(* The collaborators.  The EndpointBuilder and the http transport are      *)
(* outside the package; the model gives them the inputs below.             *)
(***************************************************************************)
\* The callers pass distinct arguments: the address caller c passes to
\* Geocode and the coordinates it passes to ReverseGeocode.
AddressList == << <<"a", " ", "b">>, <<"a", "+">>, <<"b">>, <<"&", "a">> >>

Addresses(c) == {AddressList[((c - 1) % Len(AddressList)) + 1]}

Coordinates(c) == {Location(c, 0 - c)}

\* Response bodies the transport may deliver.
Bodies ==
    { <<"{", "1", "}">>, <<"{", "2", "}">>,
      <<" ", "[", "{", "1", "}", "]">>, <<"x">> }

\* What happens inside response (geocoder.go:78-87): http.NewRequest fails,
\* Client.Do fails, ioutil.ReadAll fails, or a body is read (with a status
\* that response never looks at).
NoResponse == [kind |-> "none", status |-> 0, body |-> <<>>]

Failure(k) == [kind |-> k, status |-> 0, body |-> <<>>]

Ok(st, b) == [kind |-> "ok", status |-> st, body |-> b]

Responses ==
    {Failure("reqErr"), Failure("doErr"), Failure("readErr")}
        \cup {Ok(200, b) : b \in Bodies}
        \cup {Ok(500, <<"{", "1", "}">>)}

\* The two ways an implementation of ResponseParser.ResponseObject
\* (geocoder.go:36) can behave: "fresh" returns a new blank instance,
\* "self" returns the receiver.
Impls == {"fresh", "self"}

VARIABLES
    impl,       \* how the embedded parser implements ResponseObject
    heap,       \* heap[i]: the fields of parser instance i
    op,         \* op[c]: "idle", "Geocode" or "ReverseGeocode"
    arg,        \* arg[c]: the arguments of call c
    cpc,        \* caller of c: "idle", "waiting" (in select), "returned"
    ret,        \* ret[c]: what call c returned
    wpc,        \* worker of c: "none", "spawned", "fetching", "decoded",
                \*   "sending" (blocked in ch <- v), "done"
    builderArg, \* what the worker handed to GeocodeUrl / ReverseGeocodeUrl
    obj,        \* the instance g.ResponseObject() returned to the worker
    resp,       \* what response met for call c
    chv,        \* the value the worker sends on ch
    gets,       \* gets[c]: the URLs of the GET requests sent for call c
    overlapped  \* history: some call began while another was still in progress

vars == <<impl, heap, op, arg, cpc, ret, wpc, builderArg, obj, resp, chv, gets, overlapped>>

NoArg == [address |-> <<>>, loc |-> ZeroLocation]

NoReturn == [val |-> LocationValue(ZeroLocation), err |-> nil]

Init ==
    /\ impl \in Impls
    /\ heap = [i \in Instances |-> Blank]
    /\ op = [c \in Calls |-> "idle"]
    /\ arg = [c \in Calls |-> NoArg]
    /\ cpc = [c \in Calls |-> "idle"]
    /\ ret = [c \in Calls |-> NoReturn]
    /\ wpc = [c \in Calls |-> "none"]
    /\ builderArg = [c \in Calls |-> NoArg]
    /\ obj = [c \in Calls |-> 0]
    /\ resp = [c \in Calls |-> NoResponse]
    /\ chv = [c \in Calls |-> LocationValue(ZeroLocation)]
    /\ gets = [c \in Calls |-> <<>>]
    /\ overlapped = FALSE

\* A caller or a worker of some call is still at work.
InProgress == \E d \in Calls : cpc[d] = "waiting" \/ wpc[d] \notin {"none", "done"}

\* Call identifiers are handed out in order: c is the next call to be made.
NextCall(c) == cpc[c] = "idle" /\ \A d \in Calls : d < c => cpc[d] # "idle"

(***************************************************************************)
(* Geocode up to the select (geocoder.go:46-53): make the channel, start   *)
(* the goroutine, block in select with a fresh timer.                      *)
(***************************************************************************)
Geocode(c, address) ==
    /\ NextCall(c)
    /\ op' = [op EXCEPT ![c] = "Geocode"]
    /\ arg' = [arg EXCEPT ![c] = [address |-> address, loc |-> ZeroLocation]]
    /\ cpc' = [cpc EXCEPT ![c] = "waiting"]
    /\ wpc' = [wpc EXCEPT ![c] = "spawned"]
    /\ overlapped' = (overlapped \/ InProgress)
    /\ UNCHANGED <<impl, heap, ret, builderArg, obj, resp, chv, gets>>

(***************************************************************************)
(* ReverseGeocode up to the select (geocoder.go:62-69).                    *)
(***************************************************************************)
ReverseGeocode(c, lat, lng) ==
    /\ NextCall(c)
    /\ op' = [op EXCEPT ![c] = "ReverseGeocode"]
    /\ arg' = [arg EXCEPT ![c] = [address |-> <<>>, loc |-> Location(lat, lng)]]
    /\ cpc' = [cpc EXCEPT ![c] = "waiting"]
    /\ wpc' = [wpc EXCEPT ![c] = "spawned"]
    /\ overlapped' = (overlapped \/ InProgress)
    /\ UNCHANGED <<impl, heap, ret, builderArg, obj, resp, chv, gets>>

\* g.ResponseObject() (geocoder.go:49,65) called by the worker of call c: the
\* instance it returns.
\* Variant: an implementation that hands out the receiver.
ResponseObjectShared(c) == 0

ResponseObject(c) == IF impl = "fresh" THEN c ELSE 0

\* The argument expressions of the call of response (geocoder.go:49,65).
UrlArgument(c) ==
    IF op[c] = "Geocode"
    THEN [address |-> QueryEscape(arg[c].address), loc |-> ZeroLocation]
    ELSE [address |-> <<>>, loc |-> arg[c].loc]

\* The URL the worker of call c passes to response (geocoder.go:49,65): what
\* the EndpointBuilder method of the operation returns for its argument.
\* Variant: the two builder methods taken for each other.
RequestUrlSwapped(c) ==
    [builder |-> IF op[c] = "Geocode" THEN "ReverseGeocodeUrl" ELSE "GeocodeUrl",
     arg |-> UrlArgument(c)]

RequestUrl(c) ==
    [builder |-> IF op[c] = "Geocode" THEN "GeocodeUrl" ELSE "ReverseGeocodeUrl",
     arg |-> UrlArgument(c)]

(***************************************************************************)
(* The worker evaluates the arguments of response (geocoder.go:49,65), the *)
(* URL from the EndpointBuilder and the decode target from ResponseObject, *)
(* and enters response (geocoder.go:79-80): http.NewRequest either fails   *)
(* on the URL, and response returns at once, or builds the request, and    *)
(* Client.Do sends the one GET and waits for the answer.                   *)
(***************************************************************************)
WorkerStart(c, built) ==
    /\ wpc[c] = "spawned"
    /\ builderArg' = [builderArg EXCEPT ![c] = UrlArgument(c)]
    /\ obj' = [obj EXCEPT ![c] = ResponseObject(c)]
    /\ IF built
       THEN /\ gets' = [gets EXCEPT ![c] = Append(@, RequestUrl(c))]
            /\ wpc' = [wpc EXCEPT ![c] = "fetching"]
            /\ resp' = resp
       ELSE /\ gets' = gets
            /\ wpc' = [wpc EXCEPT ![c] = "decoded"]
            /\ resp' = [resp EXCEPT ![c] = Failure("reqErr")]
    /\ UNCHANGED <<impl, heap, op, arg, cpc, ret, chv, overlapped>>

\* response(url, obj) (geocoder.go:78-87) as a function of what the request
\* meets and of the fields of obj before: the fields of obj after.
\* Variant: a body is decoded only when the status is 200.
responseChecksStatus(r, target) ==
    IF r.kind = "ok" /\ r.status = 200
    THEN Unmarshal(Trim(r.body, Cutset), target)
    ELSE target

response(r, target) ==
    IF r.kind = "ok" THEN Unmarshal(Trim(r.body, Cutset), target) ELSE target

\* What Client.Do and what follows it can meet.
Answers == Responses \ {Failure("reqErr")}

(***************************************************************************)
(* Client.Do returns and response runs to its end for call c, the request  *)
(* meeting r (geocoder.go:80-86).  A transport that hangs is the case      *)
(* where this step never happens.  No case sends the request again.        *)
(***************************************************************************)
Respond(c, r) ==
    /\ wpc[c] = "fetching"
    /\ resp' = [resp EXCEPT ![c] = r]
    /\ heap' = [heap EXCEPT ![obj[c]] = response(r, @)]
    /\ wpc' = [wpc EXCEPT ![c] = "decoded"]
    /\ UNCHANGED <<impl, op, arg, cpc, ret, builderArg, obj, chv, gets, overlapped>>

\* The instance g.Location() / g.Address() read (geocoder.go:50,66): the
\* parser embedded in g, whatever ResponseObject returned.
ReadTarget(c) == 0

\* The operand of the channel send (geocoder.go:50,66).
SentValue(c) ==
    IF op[c] = "Geocode"
    THEN LocationValue(Location(heap[ReadTarget(c)].Lat, heap[ReadTarget(c)].Lng))
    ELSE StringValue(heap[ReadTarget(c)].Addr)

(***************************************************************************)
(* The worker evaluates g.Location() / g.Address() and blocks in the send  *)
(* on the unbuffered channel (geocoder.go:50,66).                          *)
(***************************************************************************)
WorkerRead(c) ==
    /\ wpc[c] = "decoded"
    /\ chv' = [chv EXCEPT ![c] = SentValue(c)]
    /\ wpc' = [wpc EXCEPT ![c] = "sending"]
    /\ UNCHANGED <<impl, heap, op, arg, cpc, ret, builderArg, obj, resp, gets, overlapped>>

\* What the first case of the select returns (geocoder.go:55,71).
\* Variant: the channel case reporting the timeout.
ReceivedAsTimeout(v) == [val |-> v, err |-> TimeoutError]

Received(v) == [val |-> v, err |-> anyError(v)]

(***************************************************************************)
(* select takes the channel case (geocoder.go:54-55,70-71): the send and   *)
(* the receive happen together, the caller returns, the worker ends.       *)
(***************************************************************************)
Receive(c) ==
    /\ cpc[c] = "waiting"
    /\ wpc[c] = "sending"
    /\ ret' = [ret EXCEPT ![c] = Received(chv[c])]
    /\ cpc' = [cpc EXCEPT ![c] = "returned"]
    /\ wpc' = [wpc EXCEPT ![c] = "done"]
    /\ UNCHANGED <<impl, heap, op, arg, builderArg, obj, resp, chv, gets, overlapped>>

\* What the timer case returns (geocoder.go:57,73).
\* Variant: the timer case run through the classifier.
TimedOutClassified(o) ==
    IF o = "Geocode"
    THEN [val |-> LocationValue(ZeroLocation), err |-> anyError(LocationValue(ZeroLocation))]
    ELSE [val |-> StringValue(""), err |-> anyError(StringValue(""))]

TimedOut(o) ==
    IF o = "Geocode"
    THEN [val |-> LocationValue(ZeroLocation), err |-> TimeoutError]
    ELSE [val |-> StringValue(""), err |-> TimeoutError]

(***************************************************************************)
(* time.After(timeoutInSeconds) delivers while the caller is in the select *)
(* and the select takes the timer case (geocoder.go:56-57,72-73).  This    *)
(* can happen when the worker is already blocked in its send: a select     *)
(* with both cases ready takes either.  The worker is left as it is.       *)
(***************************************************************************)
\* Variant: a select without the timer case.
TimeoutMissing(c) == FALSE /\ UNCHANGED vars

Timeout(c) ==
    /\ cpc[c] = "waiting"
    /\ ret' = [ret EXCEPT ![c] = TimedOut(op[c])]
    /\ cpc' = [cpc EXCEPT ![c] = "returned"]
    /\ UNCHANGED <<impl, heap, op, arg, wpc, builderArg, obj, resp, chv, gets, overlapped>>

Next ==
    \/ \E c \in Calls : \E a \in Addresses(c) : Geocode(c, a)
    \/ \E c \in Calls : \E l \in Coordinates(c) : ReverseGeocode(c, l.Lat, l.Lng)
    \/ \E c \in Calls, built \in BOOLEAN : WorkerStart(c, built)
    \/ \E c \in Calls, r \in Answers : Respond(c, r)
    \/ \E c \in Calls : WorkerRead(c)
    \/ \E c \in Calls : Receive(c)
    \/ \E c \in Calls : Timeout(c)

Spec == Init /\ [][Next]_vars

(***************************************************************************)
(* The runs in which the timer wins only calls whose request is still      *)
(* unanswered: every worker of a timed-out call completes its fetch and    *)
(* decode after the call has returned.  Each such run is a run of Spec.    *)
(***************************************************************************)
TimeoutUnanswered(c) ==
    /\ wpc[c] \in {"spawned", "fetching"}
    /\ Timeout(c)

NextAbandoned ==
    \/ \E c \in Calls : \E a \in Addresses(c) : Geocode(c, a)
    \/ \E c \in Calls : \E l \in Coordinates(c) : ReverseGeocode(c, l.Lat, l.Lng)
    \/ \E c \in Calls, built \in BOOLEAN : WorkerStart(c, built)
    \/ \E c \in Calls, r \in Answers : Respond(c, r)
    \/ \E c \in Calls : WorkerRead(c)
    \/ \E c \in Calls : Receive(c)
    \/ \E c \in Calls : TimeoutUnanswered(c)

SpecAbandoned == Init /\ [][NextAbandoned]_vars

(***************************************************************************)
(* The runs in which the timer of every call eventually fires: the timer   *)
(* case of a select that keeps waiting is eventually taken (geocoder.go:   *)
(* 56,72).  Nothing is assumed of the workers or of the transport.  No     *)
(* branch of Geocode, ReverseGeocode or response depends on which body was *)
(* read, so the transport answers with one failure or one document.        *)
(***************************************************************************)
FairAnswers == {Failure("doErr"), Ok(200, <<"{", "1", "}">>)}

NextFair ==
    \/ \E c \in Calls : \E a \in Addresses(c) : Geocode(c, a)
    \/ \E c \in Calls : \E l \in Coordinates(c) : ReverseGeocode(c, l.Lat, l.Lng)
    \/ \E c \in Calls, built \in BOOLEAN : WorkerStart(c, built)
    \/ \E c \in Calls, r \in FairAnswers : Respond(c, r)
    \/ \E c \in Calls : WorkerRead(c)
    \/ \E c \in Calls : Receive(c)
    \/ \E c \in Calls : Timeout(c)

FairSpec == Init /\ [][NextFair]_vars /\ \A c \in Calls : WF_vars(Timeout(c))

(***************************************************************************)
(* Vocabulary of the properties.                                           *)
(***************************************************************************)
\* Call c returned from the channel case / from the timer case of its select.
ViaChannel(c) == cpc[c] = "returned" /\ wpc[c] = "done"

ViaTimer(c) == cpc[c] = "returned" /\ wpc[c] # "done"

\* response has run to its end for call c.
Fetched(c) == wpc[c] \in {"decoded", "sending", "done"}

\* Fetch-and-Decode of call c failed: no body was read, or the body read is
\* not a document the parser decodes.
FetchFailed(c) ==
    Fetched(c) /\ (resp[c].kind # "ok" \/ ~IsObject(Trim(resp[c].body, Cutset)))

\* The fields a blank instance has after the response of call c is decoded
\* into it, and the value of the call's result type they hold.
OwnFields(c) == response(resp[c], Blank)

ValueOf(o, fields) ==
    IF o = "Geocode"
    THEN LocationValue(Location(fields.Lat, fields.Lng))
    ELSE StringValue(fields.Addr)

OwnValue(c) == ValueOf(op[c], OwnFields(c))

ZeroValue(o) == ValueOf(o, Blank)

(***************************************************************************)
(* C1.  With a parser whose ResponseObject returns a new blank instance    *)
(* into which the response decodes as a non-zero Location L, a Geocode     *)
(* call whose worker delivers before the timer returns exactly (L, nil).   *)
(***************************************************************************)
C1_GeocodeReturnsDecodedLocation ==
    \A c \in Calls :
        ( /\ impl = "fresh"
          /\ op[c] = "Geocode"
          /\ ViaChannel(c)
          /\ OwnFields(c) # Blank
          /\ OwnValue(c).loc # ZeroLocation )
        => ret[c] = [val |-> OwnValue(c), err |-> nil]

(***************************************************************************)
(* C2.  With every call made and answered, the calls having distinct       *)
(* arguments and distinct responses, each caller that returns from the     *)
(* channel case has the value decoded from its own response, and so no     *)
(* value decoded from another call's response.                             *)
(***************************************************************************)
DistinctCalls ==
    /\ \A c \in Calls : Fetched(c) /\ resp[c].kind = "ok"
    /\ \A c, d \in Calls : c # d => arg[c] # arg[d]
    /\ \A c, d \in Calls : c # d => OwnFields(c) # OwnFields(d)

C2_EachCallerGetsOwnValue ==
    DistinctCalls =>
        \A c \in Calls :
            ViaChannel(c) => ret[c].val = OwnValue(c)

(***************************************************************************)
(* C3.  A Geocode call that returns while its transport has not responded, *)
(* and every Geocode call that returns from the timer case, returns        *)
(* (Location{0,0}, TimeoutError): the error is never NoResultError         *)
(* although the value is the zero value.                                   *)
(***************************************************************************)
C3_HangReturnsTimeout ==
    \A c \in Calls :
        (op[c] = "Geocode" /\ cpc[c] = "returned") =>
            /\ ~Fetched(c) => ViaTimer(c)
            /\ ViaTimer(c) =>
                  /\ ret[c].val = LocationValue(Location(0, 0))
                  /\ ret[c].err = TimeoutError
                  /\ ret[c].err # NoResultError

\* A Geocode call has returned while its request is still unanswered.
C3_Witness ==
    \E c \in Calls :
        op[c] = "Geocode" /\ cpc[c] = "returned" /\ wpc[c] = "fetching"

(***************************************************************************)
(* C4.  A Geocode call that returns from the channel case returns the      *)
(* Location the worker sent, with NoResultError exactly when both          *)
(* coordinates are zero and nil otherwise.                                 *)
(***************************************************************************)
C4_GeocodeNoResultIffZero ==
    \A c \in Calls :
        (op[c] = "Geocode" /\ ViaChannel(c)) =>
            /\ ret[c].val = chv[c]
            /\ ret[c].val.type = "Location"
            /\ (ret[c].val.loc.Lat = 0 /\ ret[c].val.loc.Lng = 0)
                  => ret[c].err = NoResultError
            /\ ~(ret[c].val.loc.Lat = 0 /\ ret[c].val.loc.Lng = 0)
                  => ret[c].err = nil

\* One Geocode call returned (Location{0,0}, NoResultError) and another a
\* Location with one zero coordinate and no error.
C4_Witness ==
    \E c, d \in Calls :
        /\ op[c] = "Geocode" /\ ViaChannel(c)
        /\ ret[c] = [val |-> LocationValue(ZeroLocation), err |-> NoResultError]
        /\ op[d] = "Geocode" /\ ViaChannel(d)
        /\ ret[d].val.loc.Lat = 0 /\ ret[d].val.loc.Lng # 0 /\ ret[d].err = nil

(***************************************************************************)
(* C5.  In a sequence of calls made one after the other, a call whose      *)
(* Fetch-and-Decode failed and whose worker delivered before the timer     *)
(* returns the zero/empty value with NoResultError.                        *)
(***************************************************************************)
C5_FailedFetchIsNoResult ==
    ~overlapped =>
        \A c \in Calls :
            (ViaChannel(c) /\ FetchFailed(c)) =>
                ret[c] = [val |-> ZeroValue(op[c]), err |-> NoResultError]

(***************************************************************************)
(* C6.  A ReverseGeocode call that returns from the channel case returns   *)
(* the address the worker sent, with NoResultError exactly when it is the  *)
(* empty string and nil otherwise; one that returns from the timer case    *)
(* returns ("", TimeoutError).                                             *)
(***************************************************************************)
C6_ReverseGeocodeMirrors ==
    \A c \in Calls :
        (op[c] = "ReverseGeocode" /\ cpc[c] = "returned") =>
            /\ ViaChannel(c) =>
                  /\ ret[c].val = chv[c]
                  /\ ret[c].val.type = "string"
                  /\ ret[c].val.str = "" => ret[c].err = NoResultError
                  /\ ret[c].val.str # "" => ret[c].err = nil
            /\ ViaTimer(c) =>
                  ret[c] = [val |-> StringValue(""), err |-> TimeoutError]

\* One ReverseGeocode call returned an address without error, another
\* returned from the timer case.
C6_Witness ==
    \E c, d \in Calls :
        /\ op[c] = "ReverseGeocode" /\ ViaChannel(c)
        /\ ret[c].val.str # "" /\ ret[c].err = nil
        /\ op[d] = "ReverseGeocode" /\ ViaTimer(d)

(***************************************************************************)
(* C7.  Whatever the request met (success, a failure of any step, a body   *)
(* that does not decode, no answer at all), the error a call returns is    *)
(* nil, TimeoutError or NoResultError.                                     *)
(***************************************************************************)
C7_OnlyThreeErrors ==
    \A c \in Calls :
        cpc[c] = "returned" => ret[c].err \in {nil, TimeoutError, NoResultError}

\* A ReverseGeocode call whose request failed in the transport and a call
\* whose request got no answer have both returned.
C7_Witness ==
    \E c, d \in Calls :
        /\ op[c] = "ReverseGeocode" /\ ViaChannel(c) /\ resp[c].kind = "doErr"
        /\ cpc[d] = "returned" /\ wpc[d] = "fetching"

(***************************************************************************)
(* C8.  A JSON object P wrapped as "[" P "]", with optional spaces around, *)
(* gives decode the bytes P gives it: two calls that receive the two       *)
(* bodies hand the same bytes to decode and, decoding into blank           *)
(* instances of their own, leave them in the same state.  The second       *)
(* conjunct applies Trim and response to every wrapping of every object of *)
(* the model; it speaks of no call and is evaluated before the first one.  *)
(***************************************************************************)
Spaces == {<<>>, <<" ">>}

Wrapped(P) == {pre \o <<"[">> \o P \o <<"]">> \o post : pre \in Spaces, post \in Spaces}

JSONObjects == {<<"{", "1", "}">>, <<"{", "2", "}">>, <<"{", "0", "}">>}

C8_WrappedDecodesAlike ==
    /\ \A c, d \in Calls :
          ( /\ Fetched(c) /\ Fetched(d)
            /\ resp[c].kind = "ok" /\ resp[d].kind = "ok"
            /\ resp[d].body \in JSONObjects
            /\ resp[c].body \in Wrapped(resp[d].body) )
          => /\ Trim(resp[c].body, Cutset) = Trim(resp[d].body, Cutset)
             /\ impl = "fresh" => heap[obj[c]] = heap[obj[d]]
    /\ (\A c \in Calls : cpc[c] = "idle") =>
          \A P \in JSONObjects : \A W \in Wrapped(P) :
              /\ Trim(W, Cutset) = P
              /\ response(Ok(200, W), Blank) = response(Ok(200, P), Blank)

\* Two calls, one answered {1} and one answered [{1}] with a leading space,
\* have each decoded into an instance of their own.
C8_Witness ==
    \E c, d \in Calls :
        /\ impl = "fresh" /\ Fetched(c) /\ Fetched(d)
        /\ resp[d] = Ok(200, <<"{", "1", "}">>)
        /\ resp[c] = Ok(200, <<" ", "[", "{", "1", "}", "]">>)
        /\ heap[obj[c]] = ParserState(1, 2, "A")

(***************************************************************************)
(* C9.  The string Geocode(A) hands to GeocodeUrl.  As claimed: A itself.  *)
(* As the code has it: A query-escaped, which url.QueryUnescape turns back *)
(* into A and which holds no byte outside letters, "+" and %XX.            *)
(***************************************************************************)
HexValue(hi, lo) ==
    IF <<hi, lo>> = <<"2", "B">> THEN "+"
    ELSE IF <<hi, lo>> = <<"2", "6">> THEN "&"
    ELSE IF <<hi, lo>> = <<"2", "5">> THEN "%"
    ELSE "?"

RECURSIVE QueryUnescape(_)
QueryUnescape(s) ==
    IF s = <<>> THEN <<>>
    ELSE IF Head(s) = "+" THEN <<" ">> \o QueryUnescape(Tail(s))
    ELSE IF Head(s) = "%" /\ Len(s) >= 3
         THEN <<HexValue(s[2], s[3])>> \o QueryUnescape(SubSeq(s, 4, Len(s)))
    ELSE <<Head(s)>> \o QueryUnescape(Tail(s))

EscapedAlphabet == Unreserved \cup {"+", "%", "2", "3", "5", "6", "B", "F"}

UrlBuilt(c) == op[c] = "Geocode" /\ wpc[c] \notin {"none", "spawned"}

C9_BuilderGetsRawAddress ==
    \A c \in Calls : UrlBuilt(c) => builderArg[c].address = arg[c].address

C9_BuilderGetsEscapedAddress ==
    \A c \in Calls :
        UrlBuilt(c) =>
            /\ \A i \in 1..Len(builderArg[c].address) :
                  builderArg[c].address[i] \in EscapedAlphabet
            /\ QueryUnescape(builderArg[c].address) = arg[c].address
            /\ (builderArg[c].address = arg[c].address)
                  <=> (\A i \in 1..Len(arg[c].address) :
                          arg[c].address[i] \in Unreserved)

\* Geocode("a b") has handed "a+b" to GeocodeUrl.
C9_Witness ==
    \E c \in Calls :
        /\ UrlBuilt(c)
        /\ arg[c].address = <<"a", " ", "b">>
        /\ builderArg[c].address = <<"a", "+", "b">>

(***************************************************************************)
(* C10.  The result of a call against the result the same call, with the   *)
(* same argument and the same response, has as the first call on a new     *)
(* Geocoder.  As claimed: equal for every parser implementation, in every  *)
(* sequence of calls made one after the other.  As the code has it: equal  *)
(* when ResponseObject returns a new blank instance.                       *)
(***************************************************************************)
SoloHeap(c) ==
    [i \in Instances |-> IF i = ResponseObject(c) THEN response(resp[c], Blank) ELSE Blank]

SoloResult(c) == Received(ValueOf(op[c], SoloHeap(c)[ReadTarget(c)]))

C11_AbandonedResultDiscarded ==
    \A c \in Calls :
        /\ ViaTimer(c) =>
              ret[c] = [val |-> ZeroValue(op[c]), err |-> TimeoutError]
        /\ ( /\ ViaChannel(c)
             /\ \A d \in Calls : (d # c /\ op[d] # "idle") => ViaTimer(d) )
           => ret[c] = SoloResult(c)

(***************************************************************************)
(* C12.  (Under SpecAbandoned.)  The worker of a timed-out call whose      *)
(* request has been answered runs to its end: as long as it has not ended  *)
(* it has a step to take, so it is never left blocked.                     *)
(***************************************************************************)
WorkerStep(c) ==
    \/ \E built \in BOOLEAN : WorkerStart(c, built)
    \/ \E r \in Answers : Respond(c, r)
    \/ WorkerRead(c)
    \/ Receive(c)

C12_AbandonedWorkerEnds ==
    \A c \in Calls :
        (ViaTimer(c) /\ Fetched(c) /\ Len(gets[c]) = 1) => ENABLED WorkerStep(c)

(***************************************************************************)
(* C13.  A select entered, or still waiting, when the worker is already    *)
(* blocked in its send.  As claimed: the call returns the worker's value   *)
(* and no TimeoutError, also when the timer fires before the value is      *)
(* received.  As the code has it: with both cases ready the select takes   *)
(* either, and the call returns the worker's value with the classifier's   *)
(* error or the zero value with TimeoutError; while the worker has not     *)
(* reached its send, only the latter.                                      *)
(***************************************************************************)
Returns(c) == cpc[c] = "waiting" /\ cpc'[c] = "returned"

C13_FinishedWorkerWins ==
    [][\A c \in Calls :
          (Returns(c) /\ wpc[c] = "sending") =>
              (ret'[c].val = chv[c] /\ ret'[c].err # TimeoutError)]_vars

C13_ReadySelectTakesEither ==
    [][\A c \in Calls :
          Returns(c) =>
              \/ /\ wpc[c] = "sending"
                 /\ wpc'[c] = "done"
                 /\ ret'[c].val = chv[c]
                 /\ ret'[c].err \in {nil, NoResultError}
              \/ /\ wpc'[c] = wpc[c]
                 /\ ret'[c] = [val |-> ZeroValue(op[c]), err |-> TimeoutError]]_vars

\* One call has returned a non-zero value its worker sent; another has
\* returned TimeoutError with its worker blocked in the send.
C13_Witness ==
    \E c, d \in Calls :
        /\ ViaChannel(c) /\ ret[c].val = chv[c] /\ ret[c].err = nil
        /\ ViaTimer(d) /\ wpc[d] = "sending" /\ ret[d].err = TimeoutError

(***************************************************************************)
(* C14.  A response whose status is not 200.  As claimed: the body is not  *)
(* decoded, the decode target stays as it was and the call reports         *)
(* NoResultError.  As the code has it: response never looks at the status; *)
(* the body is trimmed and decoded as that of any response, and the call   *)
(* reports NoResultError only when the value it reads is zero or empty.    *)
(***************************************************************************)
NonOK(c) == Fetched(c) /\ resp[c].kind = "ok" /\ resp[c].status # 200

C14_NonOKStatusIsFailure ==
    \A c \in Calls :
        NonOK(c) =>
            /\ impl = "fresh" => heap[obj[c]] = Blank
            /\ (~overlapped /\ ViaChannel(c)) => ret[c].err = NoResultError

C14_StatusIsNotLookedAt ==
    \A c \in Calls :
        (Fetched(c) /\ resp[c].kind = "ok") =>
            /\ impl = "fresh" =>
                  heap[obj[c]] = Unmarshal(Trim(resp[c].body, Cutset), Blank)
            /\ ( /\ impl = "self" /\ ~overlapped /\ ViaChannel(c)
                 /\ IsObject(Trim(resp[c].body, Cutset)) )
               => ret[c].val =
                     ValueOf(op[c], ObjectFields(Trim(resp[c].body, Cutset)))
            /\ (~overlapped /\ ViaChannel(c) /\ ret[c].err = NoResultError)
               => ret[c].val = ZeroValue(op[c])

\* A call answered with status 500 and a decodable body has returned the
\* decoded value without error.
C14_Witness ==
    \E c \in Calls :
        /\ NonOK(c) /\ ViaChannel(c)
        /\ ret[c].val = OwnValue(c) /\ ret[c].err = nil

(***************************************************************************)
(* C15.  The value a worker sends on the channel is read from the parser   *)
(* instance the worker passed to response as decode target, the one        *)
(* ResponseObject returned for this call.                                  *)
(***************************************************************************)
C15_SentValueReadFromDecodeTarget ==
    \A c \in Calls :
        wpc[c] \in {"sending", "done"} => ReadTarget(c) = obj[c]

(***************************************************************************)
(* C16.  (Under FairSpec.)  Every call that has entered its select         *)
(* eventually returns, whether the transport answers, fails or never       *)
(* answers; and it returns once: what it has returned never changes.       *)
(***************************************************************************)
C16_EveryCallReturnsOnce ==
    /\ \A c \in Calls : (cpc[c] = "waiting") ~> (cpc[c] = "returned")
    /\ [][\A c \in Calls :
              cpc[c] = "returned" => (cpc'[c] = "returned" /\ ret'[c] = ret[c])]_vars

\* One call has returned while its request is still unanswered, another
\* has returned the value its worker sent.
C16_Witness ==
    \E c, d \in Calls :
        /\ ViaTimer(c) /\ wpc[c] = "fetching"
        /\ ViaChannel(d)

(***************************************************************************)
(* C17.  A call sends at most one GET, to the URL the EndpointBuilder      *)
(* method of its operation returned for this call, and never a second      *)
(* one: exactly one once response has built the request, whether it then   *)
(* succeeds, fails or is timed out, and none when http.NewRequest failed.  *)
(***************************************************************************)
C17_AtMostOneGet ==
    \A c \in Calls :
        /\ Len(gets[c]) <= 1
        /\ Len(gets[c]) = 1 <=>
              (wpc[c] = "fetching" \/ (Fetched(c) /\ resp[c].kind # "reqErr"))
        /\ \A i \in 1..Len(gets[c]) :
              /\ gets[c][i].arg = builderArg[c]
              /\ gets[c][i].builder =
                    (IF op[c] = "Geocode" THEN "GeocodeUrl" ELSE "ReverseGeocodeUrl")

\* A call whose request failed in the transport and a call that timed out
\* with its request unanswered have each sent one GET.
C17_Witness ==
    \E c, d \in Calls :
        /\ ViaChannel(c) /\ resp[c].kind = "doErr" /\ Len(gets[c]) = 1
        /\ ViaTimer(d) /\ wpc[d] = "fetching" /\ Len(gets[d]) = 1

=============================================================================
